---- MODULE Spec2Model ----
(***************************************************************************)
(* Model of utils/report_generator.py and utils/cloc_multi.py.             *)
(*                                                                         *)
(* Spec     : one run of either script: tool check, path validation, the   *)
(*            per-path collection loop with its three accumulators, and    *)
(*            the final report.  The line counter (cloc) and the file      *)
(*            system are the environment: every cloc invocation may fail,  *)
(*            print something that is not JSON, or print any of the JSON   *)
(*            documents of ClocDocs.                                       *)
(* SpecArch : build_architecture_spec and layered_layout applied to every  *)
(*            list of existing project ids drawn from the fixed topology.  *)
(*                                                                         *)
(* Numbers: counts are naturals.  Plot coordinates are floats in the       *)
(* source; they are kept here in thousandths (3.1 -> 3100, 1.25 -> 1250),  *)
(* in which every y value of the layout is an exact integer.               *)
(* Only runs with explicit command-line paths are modelled (sys.argv has   *)
(* at least one path); the built-in default list of 13 targets is the      *)
(* sequence DefaultTargets, used by SpecArch as a supply order.            *)
(***************************************************************************)
EXTENDS Integers, Sequences, FiniteSets, TLC

\* ---------------------------------------------------------------------------
\* Bounds
\* ---------------------------------------------------------------------------
MaxTargets == 3
MaxCount == 1

\* ---------------------------------------------------------------------------
\* Totals (report_generator.py 60-71, cloc_multi.py 34-45)
\* ---------------------------------------------------------------------------
Totals(f, b, c, k) == [files |-> f, blank |-> b, comment |-> c, code |-> k]

ZeroTotals == Totals(0, 0, 0, 0)

\* an add that leaves the blank count of self as it was
Add_BlankNotAdded(self, other) ==
    [files   |-> self.files + other.files,
     blank   |-> self.blank,
     comment |-> self.comment + other.comment,
     code    |-> self.code + other.code]

\* self.add(other): the value of self afterwards
Add(self, other) ==
    [files   |-> self.files + other.files,
     blank   |-> self.blank + other.blank,
     comment |-> self.comment + other.comment,
     code    |-> self.code + other.code]

\* ---------------------------------------------------------------------------
\* Small helpers over sequences and finite maps
\* ---------------------------------------------------------------------------
Range(s) == {s[k] : k \in 1..Len(s)}

EmptyMap == [k \in {} |-> ZeroTotals]

\* field-wise sum of the values of a finite map of Totals
RECURSIVE SumValues(_)
SumValues(m) ==
    IF DOMAIN m = {} THEN ZeroTotals
    ELSE LET k == CHOOSE x \in DOMAIN m : TRUE
         IN  Add(m[k], SumValues([x \in DOMAIN m \ {k} |-> m[x]]))

\* field-wise sum of a sequence of Totals
RECURSIVE SumSeq(_)
SumSeq(s) == IF s = <<>> THEN ZeroTotals ELSE Add(s[1], SumSeq(Tail(s)))

\* ---------------------------------------------------------------------------
\* Environment: command line, file system, cloc output
\* ---------------------------------------------------------------------------
ArgvPaths == {"omnibioai", "omnibioai/", "k8s", "nope", "gone"}

\* str(Path(p)): pathlib drops a trailing slash
PathStr(p) == IF p = "omnibioai/" THEN "omnibioai" ELSE p

\* the entries present in the working directory
FileSystem == {"omnibioai", "k8s"}

PathExists(p) == PathStr(p) \in FileSystem

ArgvLists == UNION {[1..n -> ArgvPaths] : n \in 1..MaxTargets}

\* rows of a cloc JSON document: maps from key to number
HeaderRow == [cloc_version |-> 2, n_files |-> 5, n_lines |-> 86]
PyRow     == [nFiles |-> 3, blank |-> 10, comment |-> 5, code |-> 50]
CRow      == [nFiles |-> 2, comment |-> 1, code |-> 20]
SumPyRow  == [nFiles |-> 3, blank |-> 10, comment |-> 5, code |-> 50]
SumAllRow == [nFiles |-> 5, blank |-> 10, comment |-> 6, code |-> 70]

NoKeys == [k \in {} |-> HeaderRow]

ClocDocs ==
    { ("header" :> HeaderRow) @@ s @@ p @@ c :
        s \in {NoKeys, "SUM" :> SumPyRow, "SUM" :> SumAllRow},
        p \in {NoKeys, "Python" :> PyRow},
        c \in {NoKeys, "C" :> CRow} }

\* what one cloc invocation gives back: exit status and standard output
ClocOutcomes ==
    {[rc |-> 1, json |-> FALSE, data |-> NoKeys],
     [rc |-> 0, json |-> FALSE, data |-> NoKeys]}
    \cup {[rc |-> 0, json |-> TRUE, data |-> d] : d \in ClocDocs}

NoOutcome == [rc |-> 0, json |-> FALSE, data |-> NoKeys]

\* ---------------------------------------------------------------------------
\* run_cloc (report_generator.py 92-140, cloc_multi.py 48-95)
\* ---------------------------------------------------------------------------
\* row.get(key, 0)
Get(row, key) == IF key \in DOMAIN row THEN row[key] ELSE 0

\* Totals(files=int(v.get("nFiles", 0)), ...)
RowTotals(row) ==
    Totals(Get(row, "nFiles"), Get(row, "blank"), Get(row, "comment"), Get(row, "code"))

\* the per_lang dictionary: every key but header and SUM whose row has "code"
PerLang(data) ==
    [k \in {x \in DOMAIN data : x \notin {"header", "SUM"} /\ "code" \in DOMAIN data[x]}
        |-> RowTotals(data[k])]

\* run_cloc without the SUM check: a missing SUM row read as an empty one
run_cloc_NoSumCheck(out) ==
    IF out.rc # 0 THEN
        [raised |-> "RuntimeError: cloc failed", overall |-> ZeroTotals, per_lang |-> EmptyMap]
    ELSE IF ~out.json THEN
        [raised |-> "JSONDecodeError", overall |-> ZeroTotals, per_lang |-> EmptyMap]
    ELSE
        [raised |-> "",
         overall |-> IF "SUM" \in DOMAIN out.data THEN RowTotals(out.data["SUM"]) ELSE ZeroTotals,
         per_lang |-> PerLang(out.data)]

\* run_cloc without the exit status check: a failed invocation read as an empty report
run_cloc_ZeroOnFailure(out) ==
    IF out.rc # 0 THEN
        [raised |-> "", overall |-> ZeroTotals, per_lang |-> EmptyMap]
    ELSE IF ~out.json THEN
        [raised |-> "JSONDecodeError", overall |-> ZeroTotals, per_lang |-> EmptyMap]
    ELSE IF "SUM" \notin DOMAIN out.data THEN
        [raised |-> "RuntimeError: missing SUM", overall |-> ZeroTotals, per_lang |-> EmptyMap]
    ELSE
        [raised |-> "", overall |-> RowTotals(out.data["SUM"]), per_lang |-> PerLang(out.data)]

\* run_cloc: raised names the exception ("" when it returns)
run_cloc(out) ==
    IF out.rc # 0 THEN
        [raised |-> "RuntimeError: cloc failed", overall |-> ZeroTotals, per_lang |-> EmptyMap]
    ELSE IF ~out.json THEN
        [raised |-> "JSONDecodeError", overall |-> ZeroTotals, per_lang |-> EmptyMap]
    ELSE IF "SUM" \notin DOMAIN out.data THEN
        [raised |-> "RuntimeError: missing SUM", overall |-> ZeroTotals, per_lang |-> EmptyMap]
    ELSE
        [raised |-> "", overall |-> RowTotals(out.data["SUM"]), per_lang |-> PerLang(out.data)]

\* ---------------------------------------------------------------------------
\* validate_paths (report_generator.py 143-149, cloc_multi.py 128-134)
\* ---------------------------------------------------------------------------
\* validation that stops at the first path that does not exist
RECURSIVE Missing_FirstOnly(_)
Missing_FirstOnly(paths) ==
    IF paths = <<>> THEN <<>>
    ELSE IF PathExists(Head(paths)) THEN Missing_FirstOnly(Tail(paths))
    ELSE <<PathStr(Head(paths))>>

\* missing = [str(p) for p in paths if not p.exists()]
RECURSIVE Missing(_)
Missing(paths) ==
    IF paths = <<>> THEN <<>>
    ELSE (IF PathExists(Head(paths)) THEN <<>> ELSE <<PathStr(Head(paths))>>)
         \o Missing(Tail(paths))

\* ---------------------------------------------------------------------------
\* Fixed topology (report_generator.py 164-233)
\* ---------------------------------------------------------------------------
\* the layers dictionary with the last layer's name written without spaces
layers_Misspelt ==
    << [name |-> "Dev / Clients", ids |-> <<"ai-dev-docker", "omnibioai_sdk">>],
       [name |-> "Workbench",     ids |-> <<"omnibioai", "lims-x", "ragbio">>],
       [name |-> "Services",      ids |-> <<"omnibioai-toolserver">>],
       [name |-> "Execution",     ids |-> <<"omnibioai-tool-exec">>],
       [name |-> "Tool Runners",  ids |-> <<"aws-tools">>],
       [name |-> "Infra/Ops",     ids |-> <<"k8s", "db-init", "docker-compose.yml",
                                            "start_stack_tmux.sh", "smoke_test_stack.sh">>] >>

\* the layers dictionary, in insertion order
layers ==
    << [name |-> "Dev / Clients", ids |-> <<"ai-dev-docker", "omnibioai_sdk">>],
       [name |-> "Workbench",     ids |-> <<"omnibioai", "lims-x", "ragbio">>],
       [name |-> "Services",      ids |-> <<"omnibioai-toolserver">>],
       [name |-> "Execution",     ids |-> <<"omnibioai-tool-exec">>],
       [name |-> "Tool Runners",  ids |-> <<"aws-tools">>],
       [name |-> "Infra / Ops",   ids |-> <<"k8s", "db-init", "docker-compose.yml",
                                            "start_stack_tmux.sh", "smoke_test_stack.sh">>] >>

edges_wanted ==
    << <<"ai-dev-docker", "omnibioai">>,
       <<"omnibioai_sdk", "omnibioai">>,
       <<"omnibioai", "lims-x">>,
       <<"omnibioai", "ragbio">>,
       <<"omnibioai", "omnibioai-toolserver">>,
       <<"omnibioai-toolserver", "omnibioai-tool-exec">>,
       <<"omnibioai-tool-exec", "aws-tools">>,
       <<"docker-compose.yml", "omnibioai">>,
       <<"docker-compose.yml", "omnibioai-toolserver">>,
       <<"docker-compose.yml", "omnibioai-tool-exec">>,
       <<"start_stack_tmux.sh", "docker-compose.yml">>,
       <<"smoke_test_stack.sh", "docker-compose.yml">>,
       <<"k8s", "omnibioai">>,
       <<"k8s", "omnibioai-toolserver">>,
       <<"k8s", "omnibioai-tool-exec">>,
       <<"db-init", "omnibioai">> >>

layer_order ==
    <<"Dev / Clients", "Workbench", "Services", "Execution", "Tool Runners", "Infra / Ops">>

\* i * 3.1 and step = 1.25, in thousandths
ColSpacing == 3100
RowStep == 1250

\* the default targets of main, in their order
DefaultTargets ==
    <<"omnibioai-tool-exec", "omnibioai", "ragbio", "lims-x", "omnibioai-toolserver",
      "aws-tools", "db-init", "ai-dev-docker", "k8s", "docker-compose.yml",
      "start_stack_tmux.sh", "smoke_test_stack.sh", "omnibioai_sdk">>

\* ---------------------------------------------------------------------------
\* build_architecture_spec (report_generator.py 155-225)
\* ---------------------------------------------------------------------------
\* the inner loop over one layer: its ids that are in existing_projects
LayerNodes(ids, existing_projects) ==
    SelectSeq(ids, LAMBDA n : n \in Range(existing_projects))

\* the outer loop, from the l-th layer on
RECURSIVE NodesFrom(_, _)
NodesFrom(l, existing_projects) ==
    IF l > Len(layers) THEN <<>>
    ELSE LayerNodes(layers[l].ids, existing_projects) \o NodesFrom(l + 1, existing_projects)

\* node list built by walking existing_projects instead of the layers
BuildNodes_SupplyOrder(existing_projects) ==
    SelectSeq(existing_projects,
              LAMBDA n : \E l \in 1..Len(layers) : n \in Range(layers[l].ids))

BuildNodes(existing_projects) == NodesFrom(1, existing_projects)

\* node_layer[n] = layer_name: the last layer that lists n
LayerOfId(n) ==
    layers[CHOOSE l \in 1..Len(layers) :
              /\ n \in Range(layers[l].ids)
              /\ \A m \in (l + 1)..Len(layers) : n \notin Range(layers[m].ids)].name

BuildNodeLayer(existing_projects) ==
    [n \in Range(BuildNodes(existing_projects)) |-> LayerOfId(n)]

\* edge filter that keeps an edge when either endpoint is a node
BuildEdges_EitherEndpoint(ns) ==
    SelectSeq(edges_wanted, LAMBDA e : e[1] \in Range(ns) \/ e[2] \in Range(ns))

\* edges = [(a, b) for (a, b) in edges_wanted if a in nodes and b in nodes]
BuildEdges(ns) ==
    SelectSeq(edges_wanted, LAMBDA e : e[1] \in Range(ns) /\ e[2] \in Range(ns))

\* ---------------------------------------------------------------------------
\* layered_layout (report_generator.py 228-259)
\* ---------------------------------------------------------------------------
\* node_layer.get(n, "Workbench")
LayerGet(nl, n) == IF n \in DOMAIN nl THEN nl[n] ELSE "Workbench"

\* per_layer[layer]: the nodes of the layer, in input order
PerLayer(ns, nl, layer) == SelectSeq(ns, LAMBDA n : LayerGet(nl, n) = layer)

\* enumerate(): 0-based position of the last occurrence of v in s
IndexOf(s, v) ==
    (CHOOSE k \in 1..Len(s) : s[k] = v /\ \A m \in (k + 1)..Len(s) : s[m] # v) - 1

\* x_map[layer]
x_map(layer) == IndexOf(layer_order, layer) * ColSpacing

\* layout whose stack hangs from y = total_height (the halving left out)
layered_layout_NotCentred(ns, nl) ==
    [n \in {m \in Range(ns) : LayerGet(nl, m) \in Range(layer_order)} |->
        LET layer        == LayerGet(nl, n)
            items        == PerLayer(ns, nl, layer)
            total_height == (Len(items) - 1) * RowStep
        IN  [x |-> x_map(layer), y |-> total_height - IndexOf(items, n) * RowStep]]

\* layout that numbers only the occupied layers (empty columns closed up)
layered_layout_Compact(ns, nl) ==
    [n \in {m \in Range(ns) : LayerGet(nl, m) \in Range(layer_order)} |->
        LET layer        == LayerGet(nl, n)
            items        == PerLayer(ns, nl, layer)
            total_height == (Len(items) - 1) * RowStep
            y0           == total_height \div 2
            before       == {k \in 1..IndexOf(layer_order, layer) :
                                PerLayer(ns, nl, layer_order[k]) # <<>>}
        IN  [x |-> Cardinality(before) * ColSpacing, y |-> y0 - IndexOf(items, n) * RowStep]]

layered_layout(ns, nl) ==
    [n \in {m \in Range(ns) : LayerGet(nl, m) \in Range(layer_order)} |->
        LET layer        == LayerGet(nl, n)
            items        == PerLayer(ns, nl, layer)
            total_height == (Len(items) - 1) * RowStep
            y0           == total_height \div 2
        IN  [x |-> x_map(layer), y |-> y0 - IndexOf(items, n) * RowStep]]

\* ---------------------------------------------------------------------------
\* architecture_figure (report_generator.py 262-396): its position lookups
\* ---------------------------------------------------------------------------
\* pos[n] for every node (306), pos[a] and pos[b] for every edge (377-378):
\* TRUE when none of them raises KeyError
FigureLookupsFound(ns, es, p) ==
    /\ \A n \in Range(ns) : n \in DOMAIN p
    /\ \A e \in Range(es) : e[1] \in DOMAIN p /\ e[2] \in DOMAIN p

NoPos == [n \in {} |-> [x |-> 0, y |-> 0]]
NoLayer == [n \in {} |-> ""]

\* ---------------------------------------------------------------------------
\* State
\* ---------------------------------------------------------------------------
VARIABLES
    prog,              \* which script runs: "report_generator" or "cloc_multi"
    argv,              \* sys.argv[1:]
    pc,                \* position of main
    done,              \* number of targets the loop has completed
    project_totals,    \* report_generator: dict label -> Totals
    project_keys,      \* insertion order of project_totals
    language_totals,   \* dict language -> Totals (lang_totals in cloc_multi)
    grand,             \* running grand total
    per_project_langs, \* cloc_multi: list of (label, per_lang)
    stderr,            \* the paths listed on stderr by validation
    exc,               \* how the run ended abnormally ("" when it did not)
    clocCalls,         \* the paths cloc was invoked on, in order
    lastOut,           \* what the latest cloc invocation gave back
    returned,          \* history: label and result of every run_cloc call that returned
    output,            \* "" | "html" (report written) | "tables" (summary printed)
    existing_projects, \* argument of build_architecture_spec
    nodes, edges, node_layer,  \* its results
    pos,               \* result of layered_layout
    operands           \* the Totals a sequence of Totals.add calls is given, in order

vars == <<prog, argv, pc, done, project_totals, project_keys, language_totals, grand,
          per_project_langs, stderr, exc, clocCalls, lastOut, returned, output,
          existing_projects, nodes, edges, node_layer, pos, operands>>

accumulators == <<project_totals, project_keys, language_totals, grand, per_project_langs>>
archVars == <<existing_projects, nodes, edges, node_layer, pos>>
runVars == <<prog, argv, done, stderr, exc, clocCalls, lastOut, returned, output>>

\* ---------------------------------------------------------------------------
\* The accumulation steps of the loop bodies
\* ---------------------------------------------------------------------------
\* project_totals[key] = overall   (report_generator.py 641)
SetProject(pt, key, overall) ==
    [k \in DOMAIN pt \cup {key} |-> IF k = key THEN overall ELSE pt[k]]

\* a dict keeps a key at the place of its first insertion
KeysAfter(keys, key) == IF key \in Range(keys) THEN keys ELSE Append(keys, key)

\* language merge that stores the latest record instead of adding it
MergeLangs_Replace(lt, per_lang) ==
    [k \in DOMAIN lt \cup DOMAIN per_lang |->
        IF k \in DOMAIN per_lang THEN per_lang[k] ELSE lt[k]]

\* for lang, tot in per_lang.items(): language_totals.setdefault(lang, Totals()).add(tot)
MergeLangs(lt, per_lang) ==
    [k \in DOMAIN lt \cup DOMAIN per_lang |->
        IF k \in DOMAIN per_lang
        THEN Add(IF k \in DOMAIN lt THEN lt[k] ELSE ZeroTotals, per_lang[k])
        ELSE lt[k]]

\* cloc_multi.py 163-166: the same merge over the whole per_project_langs list
RECURSIVE MergeAllLangs(_, _)
MergeAllLangs(lt, ppl) ==
    IF ppl = <<>> THEN lt
    ELSE MergeAllLangs(MergeLangs(lt, Head(ppl).per_lang), Tail(ppl))

\* ---------------------------------------------------------------------------
\* Initial states
\* ---------------------------------------------------------------------------
InitRun ==
    /\ done = 0
    /\ project_totals = EmptyMap
    /\ project_keys = <<>>
    /\ language_totals = EmptyMap
    /\ grand = ZeroTotals
    /\ per_project_langs = <<>>
    /\ stderr = <<>>
    /\ exc = ""
    /\ clocCalls = <<>>
    /\ lastOut = NoOutcome
    /\ returned = <<>>
    /\ output = ""
    /\ operands = <<>>

InitArch ==
    /\ existing_projects = <<>>
    /\ nodes = <<>>
    /\ edges = <<>>
    /\ node_layer = NoLayer
    /\ pos = NoPos

Init ==
    /\ prog \in {"report_generator", "cloc_multi"}
    /\ argv \in ArgvLists
    /\ pc = "ensure_cloc"
    /\ InitRun
    /\ InitArch

\* ---------------------------------------------------------------------------
\* report_generator.py main (606-658)
\* ---------------------------------------------------------------------------
\* ensure_cloc(): SystemExit(2) when cloc is not on PATH
Main_EnsureCloc ==
    /\ prog = "report_generator"
    /\ pc = "ensure_cloc"
    /\ \E installed \in BOOLEAN :
          IF installed
          THEN pc' = "validate" /\ exc' = exc
          ELSE pc' = "exit" /\ exc' = "SystemExit(2): no cloc"
    /\ UNCHANGED <<prog, argv, done, stderr, clocCalls, lastOut, returned, output>>
    /\ UNCHANGED accumulators
    /\ UNCHANGED archVars
    /\ UNCHANGED operands

\* validate_paths(targets), then the three accumulators are created
Main_ValidatePaths ==
    /\ prog = "report_generator"
    /\ pc = "validate"
    /\ LET missing == Missing(argv)
       IN  IF missing # <<>>
           THEN /\ stderr' = missing
                /\ exc' = "SystemExit(2): missing paths"
                /\ pc' = "exit"
           ELSE /\ stderr' = stderr
                /\ exc' = exc
                /\ pc' = "loop"
    /\ UNCHANGED <<prog, argv, done, clocCalls, lastOut, returned, output>>
    /\ UNCHANGED accumulators
    /\ UNCHANGED archVars
    /\ UNCHANGED operands

\* one iteration of "for t in targets" (637-645)
Main_Loop ==
    /\ prog = "report_generator"
    /\ pc = "loop"
    /\ \E out \in ClocOutcomes :
          LET t   == argv[done + 1]
              key == PathStr(t)
              r   == run_cloc(out)
          IN  /\ clocCalls' = Append(clocCalls, key)
              /\ lastOut' = out
              /\ IF r.raised # ""
                 THEN /\ exc' = r.raised
                      /\ pc' = "raised"
                      /\ UNCHANGED <<done, returned>>
                      /\ UNCHANGED accumulators
                 ELSE /\ project_totals' = SetProject(project_totals, key, r.overall)
                      /\ project_keys' = KeysAfter(project_keys, key)
                      /\ grand' = Add(grand, r.overall)
                      /\ language_totals' = MergeLangs(language_totals, r.per_lang)
                      /\ returned' = Append(returned,
                            [label |-> key, overall |-> r.overall, per_lang |-> r.per_lang])
                      /\ done' = done + 1
                      /\ pc' = IF done + 1 = Len(argv) THEN "report" ELSE "loop"
                      /\ UNCHANGED <<exc, per_project_langs>>
    /\ UNCHANGED <<prog, argv, stderr, output>>
    /\ UNCHANGED archVars
    /\ UNCHANGED operands

\* build_report (484-600): the architecture of the measured projects, then the file
Main_BuildReport ==
    /\ prog = "report_generator"
    /\ pc = "report"
    /\ existing_projects' = project_keys
    /\ nodes' = BuildNodes(project_keys)
    /\ node_layer' = BuildNodeLayer(project_keys)
    /\ edges' = BuildEdges(BuildNodes(project_keys))
    /\ pos' = layered_layout(BuildNodes(project_keys), BuildNodeLayer(project_keys))
    /\ IF FigureLookupsFound(nodes', edges', pos')
       THEN output' = "html" /\ pc' = "done" /\ exc' = exc
       ELSE output' = output /\ pc' = "raised" /\ exc' = "KeyError"
    /\ UNCHANGED <<prog, argv, done, stderr, clocCalls, lastOut, returned>>
    /\ UNCHANGED accumulators
    /\ UNCHANGED operands

\* ---------------------------------------------------------------------------
\* cloc_multi.py main (102-181)
\* ---------------------------------------------------------------------------
\* 103-106
ClocMulti_EnsureCloc ==
    /\ prog = "cloc_multi"
    /\ pc = "ensure_cloc"
    /\ \E installed \in BOOLEAN :
          IF installed
          THEN pc' = "validate" /\ exc' = exc
          ELSE pc' = "exit" /\ exc' = "SystemExit(2): no cloc"
    /\ UNCHANGED <<prog, argv, done, stderr, clocCalls, lastOut, returned, output>>
    /\ UNCHANGED accumulators
    /\ UNCHANGED archVars
    /\ UNCHANGED operands

\* 128-136
ClocMulti_Validate ==
    /\ prog = "cloc_multi"
    /\ pc = "validate"
    /\ LET missing == Missing(argv)
       IN  IF missing # <<>>
           THEN /\ stderr' = missing
                /\ exc' = "SystemExit(2): missing paths"
                /\ pc' = "exit"
           ELSE /\ stderr' = stderr
                /\ exc' = exc
                /\ pc' = "loop"
    /\ UNCHANGED <<prog, argv, done, clocCalls, lastOut, returned, output>>
    /\ UNCHANGED accumulators
    /\ UNCHANGED archVars
    /\ UNCHANGED operands

\* one iteration of "for d in dirs" (145-153)
ClocMulti_Loop ==
    /\ prog = "cloc_multi"
    /\ pc = "loop"
    /\ \E out \in ClocOutcomes :
          LET d   == argv[done + 1]
              key == PathStr(d)
              r   == run_cloc(out)
          IN  /\ clocCalls' = Append(clocCalls, key)
              /\ lastOut' = out
              /\ IF r.raised # ""
                 THEN /\ exc' = r.raised
                      /\ pc' = "raised"
                      /\ UNCHANGED <<done, returned>>
                      /\ UNCHANGED accumulators
                 ELSE /\ grand' = Add(grand, r.overall)
                      /\ per_project_langs' = Append(per_project_langs,
                            [label |-> key, per_lang |-> r.per_lang])
                      /\ returned' = Append(returned,
                            [label |-> key, overall |-> r.overall, per_lang |-> r.per_lang])
                      /\ done' = done + 1
                      /\ pc' = IF done + 1 = Len(argv) THEN "summary" ELSE "loop"
                      /\ UNCHANGED <<exc, project_totals, project_keys, language_totals>>
    /\ UNCHANGED <<prog, argv, stderr, output>>
    /\ UNCHANGED archVars
    /\ UNCHANGED operands

\* 155-181: the grand total line, then the combined language table
ClocMulti_Summary ==
    /\ prog = "cloc_multi"
    /\ pc = "summary"
    /\ language_totals' = MergeAllLangs(EmptyMap, per_project_langs)
    /\ output' = "tables"
    /\ pc' = "done"
    /\ UNCHANGED <<prog, argv, done, stderr, exc, clocCalls, lastOut, returned>>
    /\ UNCHANGED <<project_totals, project_keys, grand, per_project_langs>>
    /\ UNCHANGED archVars
    /\ UNCHANGED operands

Next ==
    \/ Main_EnsureCloc
    \/ Main_ValidatePaths
    \/ Main_Loop
    \/ Main_BuildReport
    \/ ClocMulti_EnsureCloc
    \/ ClocMulti_Validate
    \/ ClocMulti_Loop
    \/ ClocMulti_Summary

Spec == Init /\ [][Next]_vars

\* ===========================================================================
\* Claims about the aggregation run (checked under Spec)
\* ===========================================================================
\* the overall records of the reports returned under one label, in order
OverallsOf(label) ==
    LET hits == SelectSeq(returned, LAMBDA r : r.label = label)
    IN  [k \in 1..Len(hits) |-> hits[k].overall]

\* a report whose per-language records sum to its overall-summary record
WellFormed(r) == SumValues(r.per_lang) = r.overall

\* the step just taken was a cloc invocation
ClocStep == Len(clocCalls') = Len(clocCalls) + 1

\* C1: in report_generator, after every prefix of the aggregated paths (labels
\* may repeat), grand equals the field-wise sum of the values of project_totals.
C1_GrandIsProjectSum ==
    prog = "report_generator" => grand = SumValues(project_totals)

\* C2: in report_generator, project_totals[label] equals the field-wise sum of
\* the overall-summary records of every report returned under that label.
C2_RepeatedLabelAccumulates ==
    prog = "report_generator" =>
        \A label \in DOMAIN project_totals :
            project_totals[label] = SumSeq(OverallsOf(label))

\* C3: when every aggregated report is well formed (its per-language records
\* sum to its overall-summary record), grand equals the field-wise sum of the
\* language totals: after every path in report_generator, and once the
\* language table is computed in cloc_multi.  Labels and languages may repeat.
C3_GrandIsLanguageSum ==
    ((\A k \in 1..Len(returned) : WellFormed(returned[k]))
        /\ (prog = "report_generator" \/ pc = "done"))
    => grand = SumValues(language_totals)

\* two well-formed reports under one label, sharing a language, both merged
C3_Witness ==
    /\ pc = "done"
    /\ Len(returned) = 2
    /\ returned[1].label = returned[2].label
    /\ \A k \in 1..2 : WellFormed(returned[k])
    /\ DOMAIN returned[1].per_lang = {"Python"}
    /\ DOMAIN returned[2].per_lang = {"Python", "C"}
    /\ language_totals["Python"].code = 100
    /\ grand.code = 120

\* C4: a cloc invocation whose JSON document has no SUM entry ends the run in
\* an error, and the step changes none of the accumulators, whatever
\* per-language rows the document holds.
C4_MissingSumMergesNothing ==
    [][(ClocStep /\ lastOut'.rc = 0 /\ lastOut'.json /\ "SUM" \notin DOMAIN lastOut'.data)
        => (/\ exc' = "RuntimeError: missing SUM"
            /\ pc' = "raised"
            /\ UNCHANGED accumulators)]_vars

\* the second path's report has language rows but no SUM; the first was merged
C4_Witness ==
    /\ exc = "RuntimeError: missing SUM"
    /\ done = 1
    /\ DOMAIN lastOut.data = {"header", "Python", "C"}
    /\ grand = RowTotals(SumPyRow)
    /\ language_totals = ("Python" :> RowTotals(PyRow))

\* C5: when some requested path does not exist, no cloc invocation is ever
\* made and no accumulator is touched, and once validation has run the run
\* has ended with exit status 2 and has listed every non-existent path of
\* the request (and nothing else).
C5_MissingPathsStopBeforeCollection ==
    (\E k \in 1..Len(argv) : ~PathExists(argv[k])) =>
        /\ clocCalls = <<>>
        /\ returned = <<>>
        /\ project_totals = EmptyMap /\ language_totals = EmptyMap
        /\ grand = ZeroTotals /\ per_project_langs = <<>>
        /\ output = ""
        /\ pc \in {"ensure_cloc", "validate", "exit"}
        /\ (pc = "exit" /\ exc # "SystemExit(2): no cloc") =>
              /\ exc = "SystemExit(2): missing paths"
              /\ \A k \in 1..Len(argv) :
                    ~PathExists(argv[k]) => PathStr(argv[k]) \in Range(stderr)
              /\ \A m \in Range(stderr) :
                    \E k \in 1..Len(argv) : ~PathExists(argv[k]) /\ PathStr(argv[k]) = m

\* a request with an existing path between two different missing ones
C5_Witness ==
    /\ pc = "exit"
    /\ argv = <<"nope", "omnibioai", "gone">>
    /\ stderr = <<"nope", "gone">>
    /\ clocCalls = <<>>

\* C6: a cloc invocation that exits non-zero raises: the step changes no
\* accumulator (no zero Totals are recorded for the path), writes no report,
\* and the run takes no further step (no later path is collected, and the
\* report is never built).
C6_ClocFailureAbortsRun ==
    [][/\ (ClocStep /\ lastOut'.rc # 0) =>
              (/\ exc' = "RuntimeError: cloc failed"
               /\ pc' = "raised"
               /\ UNCHANGED accumulators
               /\ UNCHANGED <<done, returned>>
               /\ output' = "")
       /\ pc # "raised"]_vars

\* cloc failed on the first of several paths: one invocation, nothing merged
C6_Witness ==
    /\ exc = "RuntimeError: cloc failed"
    /\ Len(argv) > 1
    /\ Len(clocCalls) = 1
    /\ done = 0
    /\ output = ""
    /\ project_totals = EmptyMap

\* ===========================================================================
\* SpecArch: build_architecture_spec and layered_layout on every set of
\* existing project ids
\* ===========================================================================
\* the ids a project_totals dictionary may hold: the topology's, and one more
ArchIds == Range(DefaultTargets) \cup {"notes"}

Reverse(s) == [k \in 1..Len(s) |-> s[Len(s) + 1 - k]]

\* the ids of S in the order main's default list supplies them
Supplied(S) == SelectSeq(DefaultTargets \o <<"notes">>, LAMBDA n : n \in S)

InitArchInputs ==
    /\ prog = "report_generator"
    /\ argv = <<>>
    /\ pc = "arch_build"
    /\ InitRun
    /\ \E S \in SUBSET ArchIds :
          existing_projects \in {Supplied(S), Reverse(Supplied(S))}
    /\ nodes = <<>>
    /\ edges = <<>>
    /\ node_layer = NoLayer
    /\ pos = NoPos

\* build_architecture_spec(existing_projects)   (build_report, line 500)
Arch_Build ==
    /\ pc = "arch_build"
    /\ nodes' = BuildNodes(existing_projects)
    /\ node_layer' = BuildNodeLayer(existing_projects)
    /\ edges' = BuildEdges(BuildNodes(existing_projects))
    /\ pc' = "arch_layout"
    /\ UNCHANGED <<existing_projects, pos>>
    /\ UNCHANGED runVars
    /\ UNCHANGED accumulators
    /\ UNCHANGED operands

\* pos = layered_layout(nodes, node_layer)   (architecture_figure, line 274)
Arch_Layout ==
    /\ pc = "arch_layout"
    /\ pos' = layered_layout(nodes, node_layer)
    /\ pc' = "arch_done"
    /\ UNCHANGED <<existing_projects, nodes, edges, node_layer>>
    /\ UNCHANGED runVars
    /\ UNCHANGED accumulators
    /\ UNCHANGED operands

\* the rest of architecture_figure: the boxes, headings and arrows read pos
Arch_Figure ==
    /\ pc = "arch_done"
    /\ IF FigureLookupsFound(nodes, edges, pos)
       THEN pc' = "arch_drawn" /\ exc' = exc
       ELSE pc' = "raised" /\ exc' = "KeyError"
    /\ UNCHANGED <<prog, argv, done, stderr, clocCalls, lastOut, returned, output, operands>>
    /\ UNCHANGED accumulators
    /\ UNCHANGED archVars

NextArch ==
    \/ Arch_Build
    \/ Arch_Layout
    \/ Arch_Figure

SpecArch == InitArchInputs /\ [][NextArch]_vars

\* ---------------------------------------------------------------------------
\* Claims about the architecture graph and its layout (checked under SpecArch)
\* ---------------------------------------------------------------------------
Built == pc \in {"arch_layout", "arch_done"}

TopologyIds == UNION {Range(layers[l].ids) : l \in 1..Len(layers)}

\* place of an id in the topology: its layer's rank, and its rank in the layer
LayerRank(n) == CHOOSE l \in 1..Len(layers) : n \in Range(layers[l].ids)
DeclRank(n) == CHOOSE k \in 1..Len(layers[LayerRank(n)].ids) : layers[LayerRank(n)].ids[k] = n

\* place of a pair in the candidate edge list
WantedRank(e) == CHOOSE w \in 1..Len(edges_wanted) : edges_wanted[w] = e

BothIn(e, S) == e[1] \in S /\ e[2] \in S

\* C7: the returned edges are the candidate edges with both endpoints among
\* the returned nodes: nothing else, none of them left out, in candidate order.
C7_EdgesAreFilteredCandidates ==
    Built =>
        /\ \A k \in 1..Len(edges) :
              edges[k] \in Range(edges_wanted) /\ BothIn(edges[k], Range(nodes))
        /\ \A w \in 1..Len(edges_wanted) :
              BothIn(edges_wanted[w], Range(nodes)) => edges_wanted[w] \in Range(edges)
        /\ \A a, b \in 1..Len(edges) :
              a < b => WantedRank(edges[a]) < WantedRank(edges[b])

\* some candidates kept, and one dropped although one of its endpoints is a node
C7_Witness ==
    /\ Built
    /\ Len(edges) >= 2
    /\ "omnibioai" \in Range(nodes)
    /\ "ragbio" \notin Range(nodes)
    /\ <<"omnibioai", "ragbio">> \notin Range(edges)
    /\ <<"k8s", "omnibioai">> \in Range(edges)

\* C8: the returned nodes are exactly the topology ids of the existing set,
\* each once, by layer order and then by declaration order within the layer,
\* whatever the order of the supplied list; nothing existing gives no node
\* and no edge.
C8_NodesAreFilteredTopology ==
    Built =>
        /\ Range(nodes) = TopologyIds \cap Range(existing_projects)
        /\ \A a, b \in 1..Len(nodes) :
              a < b =>
                 \/ LayerRank(nodes[a]) < LayerRank(nodes[b])
                 \/ /\ LayerRank(nodes[a]) = LayerRank(nodes[b])
                    /\ DeclRank(nodes[a]) < DeclRank(nodes[b])
        /\ \A n \in Range(nodes) : node_layer[n] = layer_order[LayerRank(n)]
        /\ nodes = BuildNodes(Reverse(existing_projects))
        /\ existing_projects = <<>> => (nodes = <<>> /\ edges = <<>>)

\* every topology id exists, supplied in an order that is not the node order,
\* together with an id the topology does not list
C8_Witness ==
    /\ Built
    /\ Len(existing_projects) = 14
    /\ existing_projects[1] = "omnibioai-tool-exec"
    /\ Len(nodes) = 13
    /\ nodes[1] = "ai-dev-docker"

\* the nodes of a layer, in the order of the node list
LayerItems(layer) == SelectSeq(nodes, LAMBDA n : node_layer[n] = layer)

RECURSIVE SumY(_)
SumY(items) == IF items = <<>> THEN 0 ELSE pos[Head(items)].y + SumY(Tail(items))

\* C9: in a layer of k >= 1 nodes the j-th node (j = 0..k-1) has
\* y = (k-1)*RowStep/2 - j*RowStep; the layer spans (k-1)*RowStep, its y values
\* sum to 0, and a single node sits at y = 0.
C9_LayerIsCentredStack ==
    pc = "arch_done" =>
        \A l \in 1..Len(layer_order) :
            LET items == LayerItems(layer_order[l])
                k     == Len(items)
                ys    == {pos[items[j]].y : j \in 1..k}
            IN  k >= 1 =>
                  /\ \A j \in 0..(k - 1) :
                        2 * pos[items[j + 1]].y = (k - 1) * RowStep - 2 * j * RowStep
                  /\ \E hi, lo \in ys :
                        /\ \A y \in ys : lo <= y /\ y <= hi
                        /\ hi - lo = (k - 1) * RowStep
                  /\ SumY(items) = 0
                  /\ (k = 1 => pos[items[1]].y = 0)

\* layers of five, two and one node laid out
C9_Witness ==
    /\ pc = "arch_done"
    /\ Len(LayerItems("Infra / Ops")) = 5
    /\ Len(LayerItems("Dev / Clients")) = 2
    /\ Len(LayerItems("Services")) = 1
    /\ pos["k8s"].y = 2 * RowStep
    /\ pos["omnibioai_sdk"].y < 0

\* C10: every node's x is its layer's index in layer_order times ColSpacing,
\* and laying out the node list with all nodes of any one layer removed gives
\* every remaining node the same x.
C10_ColumnsAreFixed ==
    pc = "arch_done" =>
        /\ \A n \in Range(nodes) :
              /\ n \in DOMAIN pos
              /\ \E i \in 0..(Len(layer_order) - 1) :
                    layer_order[i + 1] = node_layer[n] /\ pos[n].x = i * ColSpacing
        /\ \A l \in 1..Len(layer_order) :
              LET rest == SelectSeq(nodes, LAMBDA n : node_layer[n] # layer_order[l])
                  pos2 == layered_layout(rest, node_layer)
              IN  \A n \in Range(rest) : pos2[n].x = pos[n].x

\* two empty layers lie between occupied ones, a third is occupied
C10_Witness ==
    /\ pc = "arch_done"
    /\ LayerItems("Dev / Clients") # <<>>
    /\ LayerItems("Workbench") = <<>>
    /\ LayerItems("Services") = <<>>
    /\ LayerItems("Execution") # <<>>
    /\ pos["omnibioai-tool-exec"].x = 3 * ColSpacing
    /\ LayerItems("Infra / Ops") # <<>>

\* C12 (two calls of layered_layout on the same arguments agree) compares an
\* operator with itself: layered_layout above reads nothing but its two
\* arguments and the constants layer_order, ColSpacing and RowStep, as the
\* function in the source reads nothing but its arguments and its locals.

Laid == pc \in {"arch_done", "arch_drawn"}

\* C13: every returned node has a layer that is an entry of layer_order, the
\* coordinate map has exactly the returned nodes as its keys, and so every
\* position lookup of architecture_figure (each node, both endpoints of each
\* retained edge) finds an entry and the figure is drawn without a KeyError.
C13_EveryLookupFindsPosition ==
    /\ Built =>
          \A n \in Range(nodes) :
              n \in DOMAIN node_layer /\ node_layer[n] \in Range(layer_order)
    /\ Laid =>
          /\ DOMAIN pos = Range(nodes)
          /\ \A e \in Range(edges) : e[1] \in DOMAIN pos /\ e[2] \in DOMAIN pos
    /\ pc # "raised"
    /\ exc = ""

\* the figure of the full topology, with all sixteen edges, was drawn
C13_Witness ==
    /\ pc = "arch_drawn"
    /\ Len(nodes) = 13
    /\ Len(edges) = Len(edges_wanted)
    /\ Len(existing_projects) = 14
    /\ exc = ""

\* C14: every retained edge (a, b) runs left to right: x(a) < x(b).
C14_EdgesRunLeftToRight ==
    Laid => \A e \in Range(edges) : pos[e[1]].x < pos[e[2]].x

\* ===========================================================================
\* SpecMerge: Totals.add applied to every triple of Totals with small fields
\* ===========================================================================
\* Totals with every field in 0..MaxCount
TotalsDomain ==
    {Totals(f, b, c, k) : f \in 0..MaxCount, b \in 0..MaxCount,
                          c \in 0..MaxCount, k \in 0..MaxCount}

InitMerge ==
    /\ prog = "report_generator"
    /\ argv = <<>>
    /\ pc = "merge"
    /\ done = 0
    /\ project_totals = EmptyMap
    /\ project_keys = <<>>
    /\ language_totals = EmptyMap
    /\ grand = ZeroTotals
    /\ per_project_langs = <<>>
    /\ stderr = <<>>
    /\ exc = ""
    /\ clocCalls = <<>>
    /\ lastOut = NoOutcome
    /\ returned = <<>>
    /\ output = ""
    /\ InitArch
    /\ operands \in [1..3 -> TotalsDomain]

\* grand.add(overall) for the next operand   (report_generator.py 642)
Merge_Add ==
    /\ pc = "merge"
    /\ grand' = Add(grand, operands[done + 1])
    /\ done' = done + 1
    /\ pc' = IF done + 1 = Len(operands) THEN "merged" ELSE "merge"
    /\ UNCHANGED <<prog, argv, stderr, exc, clocCalls, lastOut, returned, output, operands>>
    /\ UNCHANGED <<project_totals, project_keys, language_totals, per_project_langs>>
    /\ UNCHANGED archVars

NextMerge ==
    \/ Merge_Add

SpecMerge == InitMerge /\ [][NextMerge]_vars

\* the orders in which n reports can be aggregated
Orders(n) == {p \in [1..n -> 1..n] : \A i, j \in 1..n : p[i] = p[j] => i = j}

\* the grand total of the operands added to zero in the order p
RECURSIVE GrandInOrder(_, _)
GrandInOrder(p, n) ==
    IF n = 0 THEN ZeroTotals ELSE Add(GrandInOrder(p, n - 1), operands[p[n]])

\* C11: for all Totals a, b, c: add(a, zero) = a, add(a, b) = add(b, a),
\* add(add(a, b), c) = add(a, add(b, c)); and the grand total reached by
\* adding the reports in the given order is the one every other order gives.
C11_MergeIsCommutativeMonoid ==
    LET a == operands[1]
        b == operands[2]
        c == operands[3]
    IN  /\ Add(a, ZeroTotals) = a
        /\ Add(a, b) = Add(b, a)
        /\ Add(Add(a, b), c) = Add(a, Add(b, c))
        /\ pc = "merged" =>
              \A p \in Orders(Len(operands)) : grand = GrandInOrder(p, Len(operands))

\* three different non-zero Totals, all merged
C11_Witness ==
    /\ pc = "merged"
    /\ done = 3
    /\ operands[1] = Totals(1, 0, 0, 1)
    /\ operands[2] = Totals(0, 1, 0, 1)
    /\ operands[3] = Totals(1, 1, 1, 0)
    /\ grand = Totals(2, 2, 1, 2)

====
